---- MODULE Spec2Model ----
(***************************************************************************)
(* A model of the asynchronous streaming client of the AgentSpec Python    *)
(* SDK (sdk/python/agentspec/streaming.py): AsyncStreamingClient.stream,   *)
(* an async generator that opens a connection, writes a request, parses    *)
(* the status line and the headers, and decodes the SSE body into events,  *)
(* and AsyncStreamingClient.stream_text, which folds those events.         *)
(*                                                                         *)
(* Bytes and strings are sequences of symbols.  The characters the code    *)
(* looks at (the "event: " and "data: " prefixes, the separating space     *)
(* of the status line, "\r" and "\n") are one symbol each; any other run   *)
(* of bytes (a word, a JSON document) is one opaque symbol.  A Python      *)
(* value is a record [t |-> type, v |-> value]; a dict is a function from  *)
(* its keys to values.                                                     *)
(***************************************************************************)
EXTENDS Integers, Sequences, FiniteSets, TLC

VARIABLES
    api,          \* which operation the caller invoked: "stream" | "stream_text"
    pc,           \* where the generator stream() stands
    caller,       \* the consumer of the generator: "iterating" | "broke" | "raised"
    opened,       \* open_connection returned a (reader, writer) pair
    closeCount,   \* number of writer.close() calls
    elapsed,      \* time the current await has been pending, in ticks
    eof,          \* the reader has reached end-of-stream
    status_line,  \* stream(): status_line, the first line read
    status_code,  \* stream(): status_code
    hdrs,         \* header lines read so far (not the terminator)
    eofReads,     \* readline() calls of the header loop that returned b""
    body_data,    \* stream(): body_data, the bytes of the error body
    event_type,   \* stream(): event_type
    received,     \* the body lines the `async for` has read so far
    events,       \* the StreamEvents yielded so far
    failure,      \* the exception the call raised, or NoFailure
    failedAt,     \* where the call stood when it raised
    result        \* stream_text(): result

vars == <<api, pc, caller, opened, closeCount, elapsed, eof, status_line,
          status_code, hdrs, eofReads, body_data, event_type, received, events,
          failure, failedAt, result>>

----
\* Bounds of the model.

\* self._timeout, in ticks of the model's clock.
Timeout == 1
\* Header lines the peer sends before the terminator, at most.
MaxHeaders == 1
\* Body lines the peer sends, at most.
MaxBody == 4
\* readline() calls at end-of-stream the header loop is followed for.
MaxEofReads == 2

----
\* Python values.

PyStr(s) == [t |-> "str", v |-> s]
PyInt(n) == [t |-> "int", v |-> n]
PyDict(f) == [t |-> "dict", v |-> f]
EmptyDict == PyDict(<<>>)

\* dict.get(key, default)
Get(d, key, default) == IF key \in DOMAIN d.v THEN d.v[key] ELSE default

----
\* Byte strings.

CR == "\r"
LF == "\n"
SP == " "
\* A byte that is not valid UTF-8.
BadByte == "\\xff"

\* bytes.decode("utf-8") succeeds
Decodable(bytes) == \A i \in 1..Len(bytes) : bytes[i] # BadByte

\* str.startswith(prefix)
StartsWith(s, prefix) ==
    /\ Len(s) >= Len(prefix)
    /\ SubSeq(s, 1, Len(prefix)) = prefix

\* s[n:]
From(s, n) == SubSeq(s, n + 1, Len(s))

\* str.rstrip(chars)
RECURSIVE RStrip(_, _)
RStrip(s, chars) ==
    IF s # <<>> /\ s[Len(s)] \in chars
    THEN RStrip(SubSeq(s, 1, Len(s) - 1), chars)
    ELSE s

\* str.lstrip(chars)
RECURSIVE LStrip(_, _)
LStrip(s, chars) ==
    IF s # <<>> /\ s[1] \in chars THEN LStrip(Tail(s), chars) ELSE s

Whitespace == {SP, CR, LF}

\* str.strip()
Strip(s) == LStrip(RStrip(s, Whitespace), Whitespace)

\* str.split(" "): the pieces between the single spaces, empty pieces kept.
RECURSIVE Split(_, _)
Split(s, piece) ==
    IF s = <<>> THEN <<piece>>
    ELSE IF s[1] = SP THEN <<piece>> \o Split(Tail(s), <<>>)
    ELSE Split(Tail(s), Append(piece, s[1]))

\* The decimal literals of the model.
IntLiterals == [x \in {"200", "204", "503"} |->
                  CASE x = "200" -> 200 [] x = "204" -> 204 [] x = "503" -> 503]

\* int(s): surrounding whitespace is stripped; anything but a literal raises
\* ValueError.
IntOk(s) == Len(Strip(s)) = 1 /\ Strip(s)[1] \in DOMAIN IntLiterals
IntOf(s) == IntLiterals[Strip(s)[1]]

----
\* JSON documents.

JsonText == "{\"text\":\"Hi\"}"
JsonDone == "{\"turns\":1,\"duration_ms\":42,\"tokens\":{\"total\":5}}"
JsonFive == "5"
JsonErr == "{\"error\":\"overloaded\",\"message\":\"try later\"}"
JsonErrNoFields == "{}"
JsonList == "[]"

JsonDocs == {JsonText, JsonDone, JsonFive, JsonErr, JsonErrNoFields, JsonList}

\* json.loads(s) succeeds: one document, whitespace around it allowed.
JsonOk(s) == Len(Strip(s)) = 1 /\ Strip(s)[1] \in JsonDocs

\* json.loads(s), where it succeeds.
JsonLoads(s) ==
    LET doc == Strip(s)[1] IN
    CASE doc = JsonText -> PyDict([text |-> PyStr(<<"Hi">>)])
      [] doc = JsonDone -> PyDict([turns |-> PyInt(1), duration_ms |-> PyInt(42),
                                 tokens |-> PyDict([total |-> PyInt(5)])])
      [] doc = JsonFive -> PyInt(5)
      [] doc = JsonErr -> PyDict([error |-> PyStr(<<"overloaded">>),
                                message |-> PyStr(<<"try later">>)])
      [] doc = JsonErrNoFields -> EmptyDict
      [] doc = JsonList -> [t |-> "list", v |-> <<>>]

----
\* The bytes the peer can send.

StatusOK == <<"HTTP/1.1", SP, "200", SP, "OK", CR, LF>>
StatusNoContent == <<"HTTP/1.1", SP, "204", SP, "No", SP, "Content", CR, LF>>
StatusUnavailable == <<"HTTP/1.1", SP, "503", SP, "Service", SP, "Unavailable", CR, LF>>
StatusNoCode == <<"HTTP/1.1", CR, LF>>
StatusNotInt == <<"HTTP/1.1", SP, "abc", SP, "OK", CR, LF>>

StatusLines == {StatusOK, StatusNoContent, StatusUnavailable, StatusNoCode,
                StatusNotInt}

HeaderLine == <<"Content-Type:", SP, "text/event-stream", CR, LF>>
HeaderLines == {HeaderLine, <<CR, LF>>, <<LF>>}

ErrorBodies == {<<JsonErr>>, <<JsonErrNoFields>>, <<JsonList>>, <<"oops">>,
                <<BadByte>>, <<>>}

EventPrefix == <<"e", "v", "e", "n", "t", ":", SP>>
DataPrefix == <<"d", "a", "t", "a", ":", SP>>

EvText == EventPrefix \o <<"text", CR, LF>>
EvDone == EventPrefix \o <<"done", LF>>
DataText == DataPrefix \o <<JsonText, CR, LF>>
DataDone == DataPrefix \o <<JsonDone, LF>>
DataFive == DataPrefix \o <<JsonFive, LF>>
DataNotJson == DataPrefix \o <<"oops", SP, CR, LF>>
DataBadByte == DataPrefix \o <<BadByte, LF>>
BlankLine == <<CR, LF>>
CommentLine == <<":", SP, "ping", LF>>

BodyLines == {EvText, EvDone, DataText, DataDone, DataFive, DataNotJson,
              DataBadByte, BlankLine, CommentLine}

----
\* Exceptions.

NoFailure == [kind |-> "none", status_code |-> 0,
              error_code |-> PyStr(<<>>), message |-> PyStr(<<>>)]

Exc(kind) == [NoFailure EXCEPT !.kind = kind]

\* APIError(status_code, error_code, message)
APIError(status, error_code, message) ==
    [kind |-> "APIError", status_code |-> status,
     error_code |-> error_code, message |-> message]

----
\* stream(): the decisions of the code.

\* The status line's second space-delimited token parses as an integer;
\* otherwise the exception the parse raises.
StatusParse(line) ==
    LET parts == Split(line, <<>>) IN
    IF Len(parts) < 2 THEN [ok |-> FALSE, exc |-> "IndexError", code |-> 0]
    ELSE IF ~IntOk(parts[2]) THEN [ok |-> FALSE, exc |-> "ValueError", code |-> 0]
    ELSE [ok |-> TRUE, exc |-> "none", code |-> IntOf(parts[2])]

\* header_line == b"\r\n" or header_line == b"\n"
IsTerminator(header_line) == header_line = <<CR, LF>> \/ header_line = <<LF>>

\* A variant that takes only the 4xx and 5xx codes for errors.
IsErrorStatusFrom400(code) == code >= 400

\* if status_code != 200
IsErrorStatus(code) == code # 200

\* What the non-200 branch raises for the bytes reader.read(4096) returned.
ErrorFailure(code, data) ==
    IF ~Decodable(data)
    THEN APIError(code, PyStr(<<"unknown">>), PyStr(<<"request failed">>))
    ELSE IF ~JsonOk(data) THEN Exc("JSONDecodeError")
    ELSE LET err == JsonLoads(data) IN
         IF err.t # "dict"
         THEN APIError(code, PyStr(<<"unknown">>), PyStr(<<"request failed">>))
         ELSE APIError(code, Get(err, "error", PyStr(<<"unknown">>)),
                       Get(err, "message", PyStr(<<"request failed">>)))

\* line = raw_line.decode("utf-8").rstrip("\n\r")
Line(raw_line) == RStrip(raw_line, {LF, CR})

IsEventLine(line) == StartsWith(line, EventPrefix)
IsDataLine(line) == ~IsEventLine(line) /\ StartsWith(line, DataPrefix)

\* A variant that slices one character early and keeps the space.
EventNameFromColon(line) == From(line, 6)

\* line[7:]
EventName(line) == From(line, 7)
\* line[6:]
DataStr(line) == From(line, 6)

\* json.loads(data_str), or {"raw": data_str} on JSONDecodeError
Payload(data_str) ==
    IF JsonOk(data_str) THEN JsonLoads(data_str)
    ELSE PyDict([raw |-> PyStr(data_str)])

StreamEvent(event, data) == [event |-> event, data |-> data]

\* A variant without the break.
NeverStops(name) == FALSE

\* if event_type == "done": break
StopsAfter(name) == name = <<"done">>

\* A variant that keeps the pending name after an event.
KeepEventType(name) == name

\* event_type = ""
ResetEventType(name) == <<>>

----
\* stream_text(): the fold.

TokenUsage(input, output, total) ==
    [input |-> input, output |-> output, cache_read |-> PyInt(0), total |-> total]

StreamResult == [text |-> <<>>, tokens |-> TokenUsage(PyInt(0), PyInt(0), PyInt(0)),
                 turns |-> PyInt(0), duration_ms |-> PyInt(0)]

\* The loop body raises nothing for this event (.get needs a dict, += a str).
FoldOk(ev) ==
    IF ev.event = <<"text">>
    THEN ev.data.t = "dict" /\ Get(ev.data, "text", PyStr(<<>>)).t = "str"
    ELSE IF ev.event = <<"done">>
    THEN ev.data.t = "dict" /\ Get(ev.data, "tokens", EmptyDict).t = "dict"
    ELSE TRUE

\* A variant whose text branch assigns instead of appending.
AccumulateOverwrite(r, ev) ==
    IF ev.event = <<"text">>
    THEN [r EXCEPT !.text = Get(ev.data, "text", PyStr(<<>>)).v]
    ELSE IF ev.event = <<"done">>
    THEN LET tokens_data == Get(ev.data, "tokens", EmptyDict) IN
         [r EXCEPT !.tokens = TokenUsage(Get(tokens_data, "input", PyInt(0)),
                                         Get(tokens_data, "output", PyInt(0)),
                                         Get(tokens_data, "total", PyInt(0))),
                   !.turns = Get(ev.data, "turns", PyInt(0)),
                   !.duration_ms = Get(ev.data, "duration_ms", PyInt(0))]
    ELSE r

\* The loop body of stream_text.
Accumulate(r, ev) ==
    IF ev.event = <<"text">>
    THEN [r EXCEPT !.text = r.text \o Get(ev.data, "text", PyStr(<<>>)).v]
    ELSE IF ev.event = <<"done">>
    THEN LET tokens_data == Get(ev.data, "tokens", EmptyDict) IN
         [r EXCEPT !.tokens = TokenUsage(Get(tokens_data, "input", PyInt(0)),
                                         Get(tokens_data, "output", PyInt(0)),
                                         Get(tokens_data, "total", PyInt(0))),
                   !.turns = Get(ev.data, "turns", PyInt(0)),
                   !.duration_ms = Get(ev.data, "duration_ms", PyInt(0))]
    ELSE r

----
\* The state machine.

Init ==
    /\ api \in {"stream", "stream_text"}
    /\ pc = "connect"
    /\ caller = "iterating"
    /\ opened = FALSE
    /\ closeCount = 0
    /\ elapsed = 0
    /\ eof = FALSE
    /\ status_line = <<>>
    /\ status_code = 0
    /\ hdrs = 0
    /\ eofReads = 0
    /\ body_data = <<>>
    /\ event_type = <<>>
    /\ received = <<>>
    /\ events = <<>>
    /\ failure = NoFailure
    /\ failedAt = "none"
    /\ result = StreamResult

\* The awaits that wait for the peer.
Awaits == {"connect", "status", "headers", "errbody", "sse"}

\* The awaits wrapped in asyncio.wait_for(..., timeout=self._timeout).
Timed == {"connect", "status"}

\* A variant with writer.close() after the loop instead of in a finally.
ExitClosesOnReturnOnly(outcome, exc) ==
    /\ pc' = outcome
    /\ failure' = exc
    /\ failedAt' = IF exc = failure THEN failedAt ELSE pc
    /\ closeCount' = IF outcome = "returned" THEN closeCount + 1 ELSE closeCount
    /\ elapsed' = 0

\* The try block is left (finally: writer.close()), by return or by exc.
Exit(outcome, exc) ==
    /\ pc' = outcome
    /\ failure' = exc
    /\ failedAt' = IF exc = failure THEN failedAt ELSE pc
    /\ closeCount' = closeCount + 1
    /\ elapsed' = 0

\* An await under wait_for is still pending and a unit of time passes; when
\* the timeout is reached the await ends (it returns or it is cancelled).
Tick ==
    /\ pc \in Timed
    /\ elapsed < Timeout
    /\ elapsed' = elapsed + 1
    /\ UNCHANGED <<api, pc, caller, opened, closeCount, eof, status_line, status_code, hdrs,
                   eofReads, body_data, event_type, received, events, failure, failedAt,
                   result>>

\* An await without wait_for is still pending when more than the timeout has
\* passed: nothing cancels it.
Stall ==
    /\ pc \in Awaits \ Timed
    /\ ~eof
    /\ elapsed <= Timeout
    /\ elapsed' = Timeout + 1
    /\ UNCHANGED <<api, pc, caller, opened, closeCount, eof, status_line, status_code, hdrs,
                   eofReads, body_data, event_type, received, events, failure, failedAt,
                   result>>

\* open_connection returns.
ConnectOK ==
    /\ pc = "connect"
    /\ pc' = "write"
    /\ opened' = TRUE
    /\ elapsed' = 0
    /\ UNCHANGED <<api, caller, closeCount, eof, status_line, status_code, hdrs, eofReads,
                   body_data, event_type, received, events, failure, failedAt, result>>

\* open_connection raises OSError, or its wait_for times out: ConnectionError
\* is raised before the try block is entered.
ConnectFail ==
    /\ pc = "connect"
    /\ pc' = "failed"
    /\ failure' = Exc("ConnectionError")
    /\ failedAt' = pc
    /\ elapsed' = 0
    /\ UNCHANGED <<api, caller, opened, closeCount, eof, status_line, status_code, hdrs,
                   eofReads, body_data, event_type, received, events, result>>

\* writer.write(...); await writer.drain()
WriteRequest ==
    /\ pc = "write"
    /\ \/ /\ pc' = "status"
          /\ UNCHANGED <<closeCount, elapsed, failure, failedAt>>
       \/ Exit("failed", Exc("OSError"))
    /\ UNCHANGED <<api, caller, opened, eof, status_line, status_code, hdrs, eofReads,
                   body_data, event_type, received, events, result>>

\* status_line = await wait_for(reader.readline()); status_code = int(...)
ReadStatusLine ==
    /\ pc = "status"
    /\ \E line \in StatusLines \cup {<<>>} :
         LET parsed == StatusParse(line) IN
         /\ status_line' = line
         /\ eof' = (line = <<>>)
         /\ IF parsed.ok
            THEN /\ status_code' = parsed.code
                 /\ pc' = "headers"
                 /\ elapsed' = 0
                 /\ UNCHANGED <<closeCount, failure, failedAt>>
            ELSE /\ Exit("failed", Exc(parsed.exc))
                 /\ UNCHANGED status_code
    /\ UNCHANGED <<api, caller, opened, hdrs, eofReads, body_data, event_type, received,
                   events, result>>

\* The wait_for of the status line times out.
StatusTimeout ==
    /\ pc = "status"
    /\ elapsed = Timeout
    /\ Exit("failed", Exc("TimeoutError"))
    /\ UNCHANGED <<api, caller, opened, eof, status_line, status_code, hdrs, eofReads,
                   body_data, event_type, received, events, result>>

\* A read of the connection raises (the connection is reset).
ReadFails ==
    /\ pc \in {"status", "headers", "errbody", "sse"}
    /\ ~eof
    /\ caller = "iterating"
    /\ Exit("failed", Exc("OSError"))
    /\ UNCHANGED <<api, caller, opened, eof, status_line, status_code, hdrs, eofReads,
                   body_data, event_type, received, events, result>>

\* One iteration of the header loop.  At end-of-stream readline() returns b"",
\* which is no terminator.
ReadHeader ==
    /\ pc = "headers"
    /\ \E header_line \in HeaderLines \cup {<<>>} :
         /\ eof => header_line = <<>>
         /\ header_line = <<>> => eofReads < MaxEofReads
         /\ header_line = HeaderLine => hdrs < MaxHeaders
         /\ eof' = (header_line = <<>>)
         /\ eofReads' = IF header_line = <<>> THEN eofReads + 1 ELSE eofReads
         /\ hdrs' = IF header_line = HeaderLine THEN hdrs + 1 ELSE hdrs
         /\ pc' = IF IsTerminator(header_line)
                  THEN (IF IsErrorStatus(status_code) THEN "errbody" ELSE "sse")
                  ELSE "headers"
    /\ elapsed' = 0
    /\ event_type' = <<>>
    /\ UNCHANGED <<api, caller, opened, closeCount, status_line, status_code, body_data,
                   received, events, failure, failedAt, result>>

\* The non-200 branch: body_data = await reader.read(4096), then a raise.
ReadErrorBody ==
    /\ pc = "errbody"
    /\ \E data \in ErrorBodies :
         /\ body_data' = data
         /\ eof' = (data = <<>>)
         /\ Exit("failed", ErrorFailure(status_code, data))
    /\ UNCHANGED <<api, caller, opened, status_line, status_code, hdrs, eofReads, event_type,
                   received, events, result>>

\* One iteration of `async for raw_line in reader`, to the yield or to the
\* end of the iteration.
ReadBodyLine ==
    /\ pc = "sse"
    /\ caller = "iterating"
    /\ \E raw_line \in BodyLines \cup {<<>>} :
         /\ raw_line # <<>> => Len(received) < MaxBody
         /\ eof' = (raw_line = <<>>)
         /\ received' = IF raw_line = <<>> THEN received
                        ELSE Append(received, raw_line)
         /\ IF raw_line = <<>>
            THEN /\ Exit("returned", failure)
                 /\ UNCHANGED <<event_type, events>>
            ELSE IF ~Decodable(raw_line)
            THEN /\ Exit("failed", Exc("UnicodeDecodeError"))
                 /\ UNCHANGED <<event_type, events>>
            ELSE LET line == Line(raw_line) IN
                 IF IsEventLine(line)
                 THEN /\ event_type' = EventName(line)
                      /\ elapsed' = 0
                      /\ UNCHANGED <<pc, events, closeCount, failure, failedAt>>
                 ELSE IF IsDataLine(line)
                 THEN /\ events' = Append(events,
                              StreamEvent(event_type, Payload(DataStr(line))))
                      /\ pc' = "yield"
                      /\ elapsed' = 0
                      /\ UNCHANGED <<event_type, closeCount, failure, failedAt>>
                 ELSE /\ elapsed' = 0
                      /\ UNCHANGED <<pc, event_type, events, closeCount, failure,
                                     failedAt>>
    /\ UNCHANGED <<api, caller, opened, status_line, status_code, hdrs, eofReads, body_data, result>>

\* The generator is resumed after the yield.
AfterYield ==
    IF StopsAfter(event_type)
    THEN /\ Exit("returned", failure)
         /\ UNCHANGED event_type
    ELSE /\ event_type' = ResetEventType(event_type)
         /\ pc' = "sse"
         /\ UNCHANGED <<closeCount, elapsed, failure, failedAt>>

\* A caller's `async for event in client.stream(...)` asks for the next event.
LoopContinue ==
    /\ api = "stream"
    /\ pc = "yield"
    /\ caller = "iterating"
    /\ AfterYield
    /\ UNCHANGED <<api, caller, opened, eof, status_line, status_code, hdrs, eofReads,
                   body_data, received, events, result>>

\* A caller's loop body leaves the loop (break, return): the generator is
\* not resumed and stays suspended at its yield.
LoopBreak ==
    /\ api = "stream"
    /\ pc = "yield"
    /\ caller = "iterating"
    /\ caller' = "broke"
    /\ UNCHANGED <<api, pc, opened, closeCount, elapsed, eof, status_line, status_code, hdrs,
                   eofReads, body_data, event_type, received, events, failure, failedAt,
                   result>>

\* stream_text's loop body for the event just yielded, and its request for
\* the next one.  An exception of the body leaves the loop.
StreamTextStep ==
    /\ api = "stream_text"
    /\ pc = "yield"
    /\ caller = "iterating"
    /\ LET event == events[Len(events)] IN
       IF FoldOk(event)
       THEN /\ result' = Accumulate(result, event)
            /\ AfterYield
            /\ UNCHANGED caller
       ELSE /\ caller' = "raised"
            /\ failure' = Exc(IF event.data.t = "dict" THEN "TypeError"
                              ELSE "AttributeError")
            /\ failedAt' = "stream_text"
            /\ UNCHANGED <<pc, closeCount, elapsed, event_type, result>>
    /\ UNCHANGED <<api, opened, eof, status_line, status_code, hdrs, eofReads, body_data, received,
                   events>>

\* The abandoned generator is finalized (its aclose() is run once it is
\* garbage-collected): GeneratorExit is raised at the yield and the finally
\* block runs.
Finalize ==
    /\ pc = "yield"
    /\ caller \in {"broke", "raised"}
    /\ Exit("finalized", failure)
    /\ UNCHANGED <<api, caller, opened, eof, status_line, status_code, hdrs, eofReads,
                   body_data, event_type, received, events, result>>

Next ==
    \/ Tick
    \/ Stall
    \/ ConnectOK
    \/ ConnectFail
    \/ WriteRequest
    \/ ReadStatusLine
    \/ StatusTimeout
    \/ ReadFails
    \/ ReadHeader
    \/ ReadErrorBody
    \/ ReadBodyLine
    \/ LoopContinue
    \/ LoopBreak
    \/ StreamTextStep
    \/ Finalize

Spec == Init /\ [][Next]_vars

----
\* Definitions the properties are stated with.

Terminated == pc \in {"returned", "failed"}

LastEvent == events[Len(events)]

\* The body lines the decoder takes for `data: ` lines.
DataIndices(lines) ==
    {i \in 1..Len(lines) : Decodable(lines[i]) /\ IsDataLine(Line(lines[i]))}

\* The body lines the decoder takes for `event: ` lines.
EventIndices(lines) ==
    {i \in 1..Len(lines) : Decodable(lines[i]) /\ IsEventLine(Line(lines[i]))}

\* The position of i among the indices D.
Rank(D, i) == Cardinality({j \in D : j <= i})

Largest(S) == CHOOSE i \in S : \A j \in S : j <= i

\* The name of the most recent `event: ` line (indices E) before line i,
\* empty if none.
MostRecentName(lines, E, i) ==
    LET B == {j \in E : j < i} IN
    IF B = {} THEN <<>> ELSE EventName(Line(lines[Largest(B)]))

\* The name of the most recent `event: ` line (indices E) before line i that
\* no `data: ` line (indices D) follows before line i, empty if none.
NameSincePreviousData(lines, D, E, i) ==
    LET B == {j \in E : j < i /\ \A k \in D : ~(j < k /\ k < i)} IN
    IF B = {} THEN <<>> ELSE EventName(Line(lines[Largest(B)]))

WellFormed(lines) == \A i \in 1..Len(lines) : Decodable(lines[i])

----
\* C1: once the connection has been opened, every way stream() can end (end
\* of stream, the 'done' event, a non-200 status, an unparsable status line, a
\* failed or timed-out write or read) has closed the connection: no
\* terminated call leaves its connection open.
C1_ClosedOnEveryExit == (opened /\ Terminated) => closeCount = 1

\* A read timed out after the connection was opened, and the connection is
\* closed.
C1_Witness ==
    /\ opened
    /\ pc = "failed"
    /\ failure.kind = "TimeoutError"
    /\ closeCount = 1

\* C2: when the caller stops consuming after a yielded event (early loop
\* exit), the connection has been closed, exactly once, by the time control
\* is back with the caller.
C2_ClosedWhenCallerBreaks == caller = "broke" => closeCount = 1

\* C3: for a parsed status code other than 200, stream() emits no event and
\* never enters SSE decoding (no body line is read as SSE), and if the call
\* has ended it has ended in failure.
C3_NoEventOnErrorStatus ==
    (status_code # 0 /\ status_code # 200) =>
        /\ events = <<>>
        /\ received = <<>>
        /\ pc \in {"headers", "errbody", "failed"}
        /\ pc = "failed" => failure # NoFailure

\* A 503 response has ended in a failure raised by the non-200 branch.
C3_Witness ==
    /\ status_code = 503
    /\ pc = "failed"
    /\ failedAt = "errbody"
    /\ failure.kind = "APIError"
    /\ events = <<>>

\* The failure C4 describes for a status code and an error body.
C4_Described(code, data) ==
    IF Decodable(data) /\ JsonOk(data) /\ JsonLoads(data).t = "dict"
    THEN APIError(code,
                  Get(JsonLoads(data), "error", PyStr(<<"unknown">>)),
                  Get(JsonLoads(data), "message", PyStr(<<"request failed">>)))
    ELSE APIError(code, PyStr(<<"unknown">>), PyStr(<<"request failed">>))

\* C4: for a non-200 response whose error body has been read, the failure
\* raised is an APIError with the parsed status code, with the body's
\* 'error' and 'message' fields, and with 'unknown' / 'request failed' when
\* the body does not JSON-decode or a field is missing.
C4_NonOKRaisesAPIError ==
    (pc = "failed" /\ failedAt = "errbody" /\ failure.kind # "OSError") =>
        failure = C4_Described(status_code, body_data)

\* C5 (as claimed): on a well-formed stream the events are the `data: `
\* lines in line order, each with the name of the most recently seen
\* preceding `event: ` line, empty if none.
C5_MostRecentEventName ==
    LET D == DataIndices(received)
        E == EventIndices(received) IN
    WellFormed(received) =>
        /\ Len(events) = Cardinality(D)
        /\ \A i \in D :
             events[Rank(D, i)] =
                 StreamEvent(MostRecentName(received, E, i),
                             Payload(DataStr(Line(received[i]))))

\* C5 (amended): on a well-formed stream the events are the `data: ` lines
\* read, in line order, each with the name of the most recent `event: ` line
\* seen since the previous `data: ` line, empty if none.
C5_EventNameSincePreviousData ==
    LET D == DataIndices(received)
        E == EventIndices(received) IN
    WellFormed(received) =>
        /\ Len(events) = Cardinality(D)
        /\ \A i \in D :
             events[Rank(D, i)] =
                 StreamEvent(NameSincePreviousData(received, D, E, i),
                             Payload(DataStr(Line(received[i]))))

\* Two `data: ` lines follow one `event: text` line: the first event is named
\* text, the second has the empty name.
C5_Witness ==
    /\ received = <<EvText, DataText, DataText>>
    /\ Len(events) = 2
    /\ events[1].event = <<"text">>
    /\ events[2].event = <<>>

\* C6: decoding stops at the 'done' event or at end-of-stream, whichever is
\* first: a 'done' event is yielded to the caller, it is the only one and
\* the last event, no line is read after the `data: ` line that produced it,
\* and a call that returned had seen 'done' or the end of the stream.
C6_StopsAtDone ==
    /\ \A i \in 1..Len(events) :
          events[i].event = <<"done">> => i = Len(events)
    /\ (events # <<>> /\ LastEvent.event = <<"done">>) =>
          /\ pc \in {"yield", "returned", "finalized"}
          /\ received # <<>>
          /\ IsDataLine(Line(received[Len(received)]))
    /\ pc = "returned" =>
          eof \/ (events # <<>> /\ LastEvent.event = <<"done">>)

\* The call returned after a 'done' event, the stream still open, with a
\* line read before the 'done' pair.
C6_Witness ==
    /\ pc = "returned"
    /\ ~eof
    /\ Len(events) = 2
    /\ LastEvent.event = <<"done">>

\* C7: a `data: ` line that is not valid JSON yields the payload
\* {"raw": <content>}, and SSE decoding fails on no line content: only a
\* failed read of the transport ends it with an error.
C7_DecodingFailsOnlyOnTransport ==
    /\ LET D == DataIndices(received) IN
       \A i \in D :
          (Rank(D, i) <= Len(events) /\ ~JsonOk(DataStr(Line(received[i])))) =>
             events[Rank(D, i)].data =
                 PyDict([raw |-> PyStr(DataStr(Line(received[i])))])
    /\ (pc = "failed" /\ failedAt = "sse") => failure.kind = "OSError"

\* C8: when the stream ends after the status line and before the header
\* terminator, stream() ends with a ProtocolFailure and reads no more.
C8_EofInHeadersFails ==
    eofReads > 0 =>
        /\ pc = "failed"
        /\ failure.kind = "ProtocolFailure"
        /\ eofReads = 1

\* C9: no await on the peer (connect, status line, header line, error body,
\* body line) stays pending for longer than the timeout.
C9_EveryWaitTimesOut == pc \in Awaits => elapsed <= Timeout

\* The text of the events named 'text', in order.
RECURSIVE C10_Text(_)
C10_Text(evs) ==
    IF evs = <<>> THEN <<>>
    ELSE (IF Head(evs).event = <<"text">> /\ "text" \in DOMAIN Head(evs).data.v
          THEN Head(evs).data.v.text.v ELSE <<>>) \o C10_Text(Tail(evs))

\* Field `key` of the payload of the 'done' event, 0 if there is none.
C10_DoneField(evs, key) ==
    LET D == {i \in 1..Len(evs) : evs[i].event = <<"done">>} IN
    IF D # {} /\ key \in DOMAIN evs[Largest(D)].data.v
    THEN evs[Largest(D)].data.v[key] ELSE PyInt(0)

\* Field `key` of the 'tokens' of the 'done' event, 0 if there is none.
C10_TokenField(evs, key) ==
    LET D == {i \in 1..Len(evs) : evs[i].event = <<"done">>} IN
    IF /\ D # {}
       /\ "tokens" \in DOMAIN evs[Largest(D)].data.v
       /\ key \in DOMAIN evs[Largest(D)].data.v.tokens.v
    THEN evs[Largest(D)].data.v.tokens.v[key] ELSE PyInt(0)

\* C10: the result stream_text returns is the fold of all the events of
\* stream: text is the in-order concatenation of the `text` fields of the
\* events named 'text' (nothing for a missing field), and tokens, turns and
\* duration_ms are those of the 'done' event's payload, 0 where absent.
C10_StreamTextIsFold ==
    (api = "stream_text" /\ pc = "returned") =>
        /\ result.text = C10_Text(events)
        /\ result.turns = C10_DoneField(events, "turns")
        /\ result.duration_ms = C10_DoneField(events, "duration_ms")
        /\ result.tokens.input = C10_TokenField(events, "input")
        /\ result.tokens.output = C10_TokenField(events, "output")
        /\ result.tokens.total = C10_TokenField(events, "total")
        /\ result.tokens.cache_read = PyInt(0)

\* stream_text returned for text 'Hi' followed by the 'done' payload
\* {turns: 1, duration_ms: 42, tokens: {total: 5}}.
C10_Witness ==
    /\ api = "stream_text"
    /\ pc = "returned"
    /\ received = <<EvText, DataText, EvDone, DataDone>>
    /\ result.text = <<"Hi">>
    /\ result.tokens.total = PyInt(5)
    /\ result.tokens.input = PyInt(0)
    /\ result.turns = PyInt(1)
    /\ result.duration_ms = PyInt(42)

----
\* The status line has been read (the read neither failed nor timed out).
C11_StatusLineRead ==
    /\ pc \notin {"connect", "write", "status"}
    /\ pc = "failed" =>
          /\ failedAt \notin {"connect", "write"}
          /\ ~(failedAt = "status" /\ failure.kind \in {"OSError", "TimeoutError"})

\* The line has no second space-delimited token, or one that is no integer.
C11_Malformed(line) ==
    LET parts == Split(line, <<>>) IN
    Len(parts) < 2 \/ ~IntOk(parts[2])

\* C11: when the first response line has no second token or that token is
\* not an integer, stream() has failed with a ProtocolFailure, one of the
\* SDK's own error kinds, has emitted no event and has closed the connection.
C11_MalformedStatusIsProtocolFailure ==
    (C11_StatusLineRead /\ C11_Malformed(status_line)) =>
        /\ pc = "failed"
        /\ failure.kind = "ProtocolFailure"
        /\ events = <<>>
        /\ closeCount = 1

----
\* What C12 says of one step of the decoder.
C12_Step ==
    /\ (pc = "headers" /\ pc' = "sse") => event_type' = <<>>
    /\ (pc = "sse" /\ received' # received
          /\ Decodable(received'[Len(received')])) =>
          LET line == Line(received'[Len(received')]) IN
          IF StartsWith(line, EventPrefix)
          THEN /\ event_type' = From(line, 7)
               /\ events' = events
          ELSE IF StartsWith(line, DataPrefix)
          THEN /\ Len(events') = Len(events) + 1
               /\ SubSeq(events', 1, Len(events)) = events
               /\ events'[Len(events')].event = event_type
               /\ pc' = "yield"
          ELSE /\ events' = events
               /\ event_type' = event_type
               /\ pc' = "sse"
    /\ (pc = "yield" /\ pc' = "sse") => event_type' = <<>>

\* C12: the decoder keeps one pending event name, empty when decoding
\* starts; an `event: ` line sets it to the rest of the line and emits
\* nothing; a `data: ` line emits exactly one event, with the pending name,
\* and the pending name is empty again when the next line is read; a blank
\* line or a line with neither prefix emits nothing and leaves the pending
\* name unchanged.
C12_PendingEventName == [][C12_Step]_vars

\* An `event: text` line, a comment, and two `data: ` lines: the first event
\* is named text, the second has the empty name.
C12_Witness ==
    /\ received = <<EvText, CommentLine, DataText, DataNotJson>>
    /\ Len(events) = 2
    /\ events[1].event = <<"text">>
    /\ events[2].event = <<>>

----
\* C13: the data of every event stream() emits is a mapping (the decoded JSON
\* payload or {"raw": <content>}), so stream_text never fails while reading
\* the fields of an event's data.
C13_EventDataIsMapping ==
    /\ \A i \in 1..Len(events) : events[i].data.t = "dict"
    /\ caller # "raised"

====
